---- MODULE Spec2Model ----
(***************************************************************************)
(* The quiz session state machine of src/App.tsx: the App component's      *)
(* in-memory state (view, currentId, reviewId, answers, now, the memoised  *)
(* metadata), the two persisted stores it reads and writes through         *)
(* lib/storage, and one action per handler.                                *)
(***************************************************************************)
EXTENDS Integers, Sequences, FiniteSets, TLC

(* ---------------------------- bounds ----------------------------------- *)
\* number of questions the loaded dataset holds
NQ == 2
\* wall-clock values are 1..MaxTime
MaxTime == 2
\* longest text handed to isCorrect
MaxLen == 2
\* largest question count handed to the percentage
MaxTotal == 10

(* ---------------------------- encodings -------------------------------- *)
\* an absent (undefined) timestamp; real timestamps are >= 1
NoTime == 0
\* the empty string '' / undefined as a question id; real ids are >= 1
NoId == 0

Times == 1..MaxTime
OptTimes == {NoTime} \cup Times

\* the loaded dataset: ids are unique and non-empty, the type is one of the two
\* normalizeType yields, the canonical answer is the trimmed Answer cell
Questions ==
  [i \in 1..NQ |->
    [id |-> i,
     questionType |-> IF i % 2 = 1 THEN "Multiple Choice" ELSE "Fill-in-the-blank",
     answer |-> <<"A">>]]

QIds == {Questions[i].id : i \in 1..NQ}
\* questions[0].id
FirstId == Questions[1].id
\* an id that names no loaded question (a stale pointer of an older dataset)
StaleId == NQ + 1
OptIds == {NoId} \cup QIds \cup {StaleId}

Views == {"start", "quiz", "result"}

(* ---------------------------- texts ------------------------------------ *)
\* an answer text is a sequence of characters
Empty == <<>>
Blank == <<" ">>
Texts == {Empty, Blank, <<"a">>}

IsSpace(c) == c = " "

RECURSIVE TrimLeft(_)
TrimLeft(s) ==
  IF s = <<>> THEN <<>>
  ELSE IF IsSpace(Head(s)) THEN TrimLeft(Tail(s)) ELSE s

RECURSIVE TrimRight(_)
TrimRight(s) ==
  IF s = <<>> THEN <<>>
  ELSE IF IsSpace(s[Len(s)]) THEN TrimRight(SubSeq(s, 1, Len(s) - 1)) ELSE s

\* String.prototype.trim
Trim(s) == TrimRight(TrimLeft(s))

\* (answers[q.id] ?? '').trim() is truthy
Answered(s) == Trim(s) # <<>>

\* the characters of the texts handed to isCorrect
Chars == {" ", "a", "A", "b"}
TextsUpTo(n) == UNION {[1..k -> Chars] : k \in 0..n}

ToUpperChar(c) == CASE c = "a" -> "A" [] c = "b" -> "B" [] OTHER -> c
\* String.prototype.toUpperCase
ToUpper(s) == [i \in 1..Len(s) |-> ToUpperChar(s[i])]

normalizeChoice(s) == ToUpper(Trim(s))

\* normalizeFill folding case as normalizeChoice does
normalizeFillFolded(s) == normalizeChoice(s)

normalizeFill(s) == Trim(s)

QuestionTypes == {"Multiple Choice", "Fill-in-the-blank"}

isCorrect(q, user) ==
  IF Trim(user) = <<>> THEN FALSE
  ELSE IF q.questionType = "Multiple Choice"
       THEN normalizeChoice(user) = normalizeChoice(q.answer)
       ELSE normalizeFill(user) = normalizeFill(q.answer)

\* the score memo: correct counts the questions whose answer isCorrect
score(qs, a) ==
  [correct |-> Cardinality({i \in 1..Len(qs) : isCorrect(qs[i], a[qs[i].id])}),
   total |-> Len(qs)]

\* Math.round of the quotient n / d of naturals, d > 0: halves round up
Round(n, d) == (2 * n + d) \div (2 * d)

\* the percentage with the quotient cut off instead of rounded
percentTruncated(correct, total) ==
  IF total # 0 THEN (correct * 1000) \div total ELSE 0

\* the result page's percent, in tenths of a percent (Math.round(...) before / 10)
percent(correct, total) ==
  IF total # 0 THEN Round(correct * 1000, total) ELSE 0

(* ---------------------------- storage ---------------------------------- *)
\* the record loadMeta returns when nothing was ever saved
EmptyMeta ==
  [startedAt |-> NoTime, submittedAt |-> NoTime, view |-> "start",
   currentId |-> NoId, reviewId |-> NoId]

MetaRecords ==
  [startedAt : OptTimes, submittedAt : OptTimes, view : Views,
   currentId : OptIds, reviewId : OptIds]

EmptyAnswers == [q \in QIds |-> Empty]

\* clearAll(ids) on an answer store: every listed answer is reset to ''
clearAll(st, ids) == [q \in DOMAIN st |-> IF q \in ids THEN Empty ELSE st[q]]

\* getAnswer(id) on an answer store
getAnswer(st, id) == st[id]

\* setAnswer(id, v) on an answer store
setAnswer(st, id, v) == [st EXCEPT ![id] = v]

VARIABLES
  phase,      \* "loading" while questions is null, "ready" once the dataset is set
  view,       \* useState<QuizView>
  currentId,  \* useState<string>
  reviewId,   \* useState<string>
  answers,    \* useState<Record<string,string>>, read as answers[id] ?? ''
  now,        \* useState<number>, refreshed by the interval timer
  metaMemo,   \* useMemo(() => loadMeta(), [view, currentId, reviewId, questions?.length])
  meta,       \* the persisted Session Metadata record
  store,      \* the persisted Answer Store
  clock,      \* the value Date.now() returned last
  act,        \* the handler that ran last, and what window.confirm did in it
  probe       \* the scoring function evaluated last, with its arguments and result

vars == <<phase, view, currentId, reviewId, answers, now, metaMemo, meta, store, clock, act,
          probe>>

(* ---------------------------- derived values --------------------------- *)
NoProbe == [fn |-> "none"]
NoAct(op) == [op |-> op, asked |-> FALSE, n |-> 0, ok |-> TRUE]
Confirm(op, n, ok) == [op |-> op, asked |-> TRUE, n |-> n, ok |-> ok]

\* { ...base, ...next }
Merge(base, next) ==
  [f \in DOMAIN base |-> IF f \in DOMAIN next THEN next[f] ELSE base[f]]

\* persistMeta saving only the changed fields, without the stored record under them
persistMetaOverwrite(next) == Merge(EmptyMeta, next)

\* persistMeta that never reaches saveMeta
persistMetaSkipped(next) == meta

\* the record persistMeta(next) saves: saveMeta({ ...loadMeta(), ...next })
persistMeta(next) == Merge(meta, next)

\* desiredView trusting the stored view without looking at the timestamps
desiredViewUnchecked(m) == m.view

\* meta.view === 'result' && submitted ? 'result' : meta.view === 'quiz' && started ? 'quiz' : 'start'
desiredView(m) ==
  IF m.view = "result" /\ m.submittedAt # NoTime THEN "result"
  ELSE IF m.view = "quiz" /\ m.startedAt # NoTime THEN "quiz"
  ELSE "start"

\* resolveId without the membership test
resolveIdUnchecked(id, fallback) == IF id # NoId THEN id ELSE fallback

\* id && qs.some((x) => x.id === id) ? id : fallback
resolveId(id, fallback) ==
  IF id # NoId /\ (\E i \in 1..NQ : Questions[i].id = id) THEN id ELSE fallback

\* typeof t === 'number' ? t : Date.now()
timeOr(t, fallback) == IF t # NoTime THEN t ELSE fallback

\* unansweredCount without the trim: a whitespace-only answer counts as answered
unansweredCountUntrimmed(a) == Cardinality({q \in QIds : a[q] = Empty})

\* questions.filter((q) => !(answers[q.id] ?? '').trim()).length
unansweredCount(a) == Cardinality({q \in QIds : ~Answered(a[q])})

answeredCount == Cardinality({q \in QIds : Answered(answers[q])})

Max(a, b) == IF a >= b THEN a ELSE b

\* elapsedOf without the result branch: the time keeps following the clock
elapsedOfRunning(m, v, t) ==
  IF m.startedAt = NoTime THEN 0 ELSE Max(0, t - m.startedAt)

\* elapsedOf without Math.max(0, ...)
elapsedOfUnclamped(m, v, t) ==
  IF m.startedAt = NoTime THEN 0
  ELSE IF v = "result" /\ m.submittedAt # NoTime THEN m.submittedAt - m.startedAt
  ELSE t - m.startedAt

\* the elapsed time computed from a metadata record, a view and a clock reading
elapsedOf(m, v, t) ==
  IF m.startedAt = NoTime THEN 0
  ELSE IF v = "result" /\ m.submittedAt # NoTime THEN Max(0, m.submittedAt - m.startedAt)
  ELSE Max(0, t - m.startedAt)

\* the displayed elapsed time
elapsedMs == elapsedOf(metaMemo, view, now)

\* the "continue" button of the start page shown without progress
hasProgressAlways == TRUE

hasProgress == metaMemo.startedAt # NoTime /\ answeredCount > 0
\* the "view last result" button shown without a stored submission
hasSubmittedAlways == TRUE

hasSubmitted == metaMemo.submittedAt # NoTime

\* the memoised metadata is re-read when one of its dependencies changed
MemoStep ==
  metaMemo' = IF <<view', currentId', reviewId', phase'>> # <<view, currentId, reviewId, phase>>
              THEN meta' ELSE metaMemo

\* Date.now(): any reading of the wall clock, which may have been set back
dateNow(t) == t \in Times /\ clock' = t

(* ---------------------------- initial state ---------------------------- *)
\* the component as constructed, over whatever the stores hold
Mounted ==
  /\ phase = "loading"
  /\ view = "start"
  /\ currentId = NoId
  /\ reviewId = NoId
  /\ answers = EmptyAnswers
  /\ now = clock
  /\ metaMemo = meta
  /\ act = NoAct("mount")
  /\ probe = NoProbe

Init ==
  /\ clock \in Times
  /\ meta \in MetaRecords
  /\ store \in [QIds -> Texts]
  /\ Mounted

(* ---------------------------- actions ---------------------------------- *)
\* the dataset-load effect
Initialize ==
  /\ phase = "loading"
  /\ phase' = "ready"
  /\ answers' = [q \in QIds |-> getAnswer(store, q)]
  /\ view' = desiredView(meta)
  /\ currentId' = resolveId(meta.currentId, FirstId)
  /\ reviewId' = resolveId(meta.reviewId, resolveId(meta.currentId, FirstId))
  /\ act' = NoAct("initialize")
  /\ UNCHANGED <<now, meta, store, clock>>
  /\ MemoStep
  /\ UNCHANGED probe

\* the record startNew saves
startNewMeta(t) ==
  [startedAt |-> t, submittedAt |-> NoTime, view |-> "quiz",
   currentId |-> FirstId, reviewId |-> FirstId]

\* startNew leaving the in-memory answers as they were
keptAnswers == answers

\* startNew: for (const q of questions) init[q.id] = ''
blankAnswers == [q \in QIds |-> Empty]

startNew(t) ==
  /\ phase = "ready"
  /\ view \in {"start", "result"}
  /\ dateNow(t)
  /\ store' = clearAll(store, QIds)
  /\ meta' = startNewMeta(t)
  /\ answers' = blankAnswers
  /\ currentId' = FirstId
  /\ reviewId' = FirstId
  /\ view' = "quiz"
  /\ act' = NoAct("startNew")
  /\ UNCHANGED <<phase, now>>
  /\ MemoStep
  /\ UNCHANGED probe

\* continueMeta restarting the timer
continueMetaRestart(m, t) ==
  [startedAt |-> t, view |-> "quiz", currentId |-> resolveId(m.currentId, FirstId)]

\* continueMeta writing the stored currentId back unresolved
continueMetaStale(m, t) ==
  [startedAt |-> timeOr(m.startedAt, t), view |-> "quiz", currentId |-> m.currentId]

\* the fields continueQuiz overlays on the stored record
continueMeta(m, t) ==
  [startedAt |-> timeOr(m.startedAt, t), view |-> "quiz",
   currentId |-> resolveId(m.currentId, FirstId)]

continueQuiz(t) ==
  /\ phase = "ready"
  /\ \/ view = "start" /\ hasProgress
     \/ view = "result"
  /\ IF meta.startedAt = NoTime THEN dateNow(t) ELSE t = clock /\ UNCHANGED clock
  /\ meta' = persistMeta(continueMeta(meta, t))
  /\ currentId' = resolveId(meta.currentId, FirstId)
  /\ view' = "quiz"
  /\ act' = NoAct("continueQuiz")
  /\ UNCHANGED <<phase, reviewId, answers, now, store>>
  /\ MemoStep
  /\ UNCHANGED probe

\* the fields goResult overlays on the stored record
goResultMeta(m, t) ==
  [startedAt |-> timeOr(m.startedAt, t), submittedAt |-> timeOr(m.submittedAt, t),
   view |-> "result", reviewId |-> resolveId(m.reviewId, FirstId)]

goResult(t) ==
  /\ phase = "ready"
  /\ view = "start" /\ hasSubmitted
  /\ IF meta.startedAt = NoTime \/ meta.submittedAt = NoTime
       THEN dateNow(t) ELSE t = clock /\ UNCHANGED clock
  /\ meta' = Merge(meta, goResultMeta(meta, t))
  /\ reviewId' = resolveId(meta.reviewId, FirstId)
  /\ view' = "result"
  /\ act' = NoAct("goResult")
  /\ UNCHANGED <<phase, currentId, answers, now, store>>
  /\ MemoStep
  /\ UNCHANGED probe

\* the quiz panel edits the question at currentIndex
updateAnswer(id, v) ==
  /\ phase = "ready"
  /\ view = "quiz"
  /\ id = currentId
  /\ store' = setAnswer(store, id, v)
  /\ answers' = [answers EXCEPT ![id] = v]
  /\ act' = NoAct("updateAnswer")
  /\ UNCHANGED <<phase, view, currentId, reviewId, now, meta, clock>>
  /\ MemoStep
  /\ UNCHANGED probe

jumpTo(id) ==
  /\ phase = "ready"
  /\ view = "quiz"
  /\ currentId' = id
  /\ meta' = persistMeta([currentId |-> id])
  /\ act' = NoAct("jumpTo")
  /\ UNCHANGED <<phase, view, reviewId, answers, now, store, clock>>
  /\ MemoStep
  /\ UNCHANGED probe

\* jumpReview reachable from every page, not only from the result page
jumpReviewOnAnyPage(id) ==
  /\ phase = "ready"
  /\ reviewId' = id
  /\ meta' = persistMeta([reviewId |-> id])
  /\ act' = NoAct("jumpReview")
  /\ UNCHANGED <<phase, view, currentId, answers, now, store, clock>>
  /\ MemoStep
  /\ UNCHANGED probe

\* the result page's grid and previous / next buttons
jumpReview(id) ==
  /\ phase = "ready"
  /\ view = "result"
  /\ reviewId' = id
  /\ meta' = persistMeta([reviewId |-> id])
  /\ act' = NoAct("jumpReview")
  /\ UNCHANGED <<phase, view, currentId, answers, now, store, clock>>
  /\ MemoStep
  /\ UNCHANGED probe

\* submitMeta keeping an earlier submittedAt, as goResult does
submitMetaKeepSubmitted(m, cur, t) ==
  [startedAt |-> timeOr(m.startedAt, t), submittedAt |-> timeOr(m.submittedAt, t),
   view |-> "result", reviewId |-> cur, currentId |-> cur]

\* the fields submit overlays on the stored record
submitMeta(m, cur, t) ==
  [startedAt |-> timeOr(m.startedAt, t), submittedAt |-> t, view |-> "result",
   reviewId |-> cur, currentId |-> cur]

\* window.confirm is shown only when some question is unanswered
submitAsks(a) == unansweredCount(a) > 0

submit(ok, t) ==
  /\ phase = "ready"
  /\ view = "quiz"
  /\ IF submitAsks(answers)
       THEN act' = Confirm("submit", unansweredCount(answers), ok)
       ELSE ok /\ act' = NoAct("submit")
  /\ IF ok
       THEN /\ dateNow(t)
            /\ meta' = Merge(meta, submitMeta(meta, currentId, t))
            /\ reviewId' = currentId
            /\ view' = "result"
       ELSE t = clock /\ UNCHANGED <<clock, meta, reviewId, view>>
  /\ UNCHANGED <<phase, currentId, answers, now, store>>
  /\ MemoStep
  /\ UNCHANGED probe

\* clearAnswers without the setAnswer loop: the answer store keeps the answers
clearedStoreKept(st) == st

\* clearAnswers: for (const q of questions) setAnswer(q.id, '')
clearedStore(st) == [q \in DOMAIN st |-> IF q \in QIds THEN Empty ELSE st[q]]

\* clearAnswers: for (const q of questions) next[q.id] = ''
clearedAnswers == [q \in QIds |-> Empty]

clearAnswers(ok) ==
  /\ phase = "ready"
  /\ view = "quiz"
  /\ act' = Confirm("clearAnswers", 0, ok)
  /\ IF ok
       THEN /\ store' = clearedStore(store)
            /\ answers' = clearedAnswers
       ELSE UNCHANGED <<store, answers>>
  /\ UNCHANGED <<phase, view, currentId, reviewId, now, meta, clock>>
  /\ MemoStep
  /\ UNCHANGED probe

\* a timer callback that also saves the pointer it closed over
tickPersisting(t) ==
  /\ dateNow(t)
  /\ now' = t
  /\ meta' = persistMeta([currentId |-> currentId])
  /\ act' = NoAct("tick")
  /\ UNCHANGED <<phase, view, currentId, reviewId, answers, store>>
  /\ MemoStep
  /\ UNCHANGED probe

\* the interval timer: setNow(Date.now())
tick(t) ==
  /\ dateNow(t)
  /\ now' = t
  /\ act' = NoAct("tick")
  /\ UNCHANGED <<phase, view, currentId, reviewId, answers, meta, store>>
  /\ MemoStep
  /\ UNCHANGED probe

\* a page reload: the component is constructed again over the same stores
reload(t) ==
  /\ phase = "ready"
  /\ dateNow(t)
  /\ phase' = "loading"
  /\ view' = "start"
  /\ currentId' = NoId
  /\ reviewId' = NoId
  /\ answers' = EmptyAnswers
  /\ now' = t
  /\ metaMemo' = meta
  /\ act' = NoAct("mount")
  /\ UNCHANGED <<meta, store, probe>>

Next ==
  \/ Initialize
  \/ \E t \in Times : startNew(t)
  \/ \E t \in Times : continueQuiz(t)
  \/ \E t \in Times : goResult(t)
  \/ \E id \in QIds, v \in Texts : updateAnswer(id, v)
  \/ \E id \in QIds : jumpTo(id)
  \/ \E id \in QIds : jumpReview(id)
  \/ \E ok \in BOOLEAN, t \in Times : submit(ok, t)
  \/ \E ok \in BOOLEAN : clearAnswers(ok)
  \/ \E t \in Times : tick(t)
  \/ \E t \in Times : reload(t)

Spec == Init /\ [][Next]_vars

\* a stored record that satisfies the data-model invariants, none of its
\* timestamps later than the clock
ValidMeta(m, t) ==
  /\ (m.view = "result" => m.submittedAt # NoTime)
  /\ (m.view = "quiz" => m.startedAt # NoTime)
  /\ m.currentId \in {NoId} \cup QIds
  /\ m.reviewId \in {NoId} \cup QIds
  /\ (m.startedAt # NoTime /\ m.submittedAt # NoTime => m.submittedAt >= m.startedAt)
  /\ m.startedAt <= t
  /\ m.submittedAt <= t

\* a first run (nothing stored) or a later run over a valid stored record
InitValid ==
  /\ clock \in Times
  /\ meta \in {m \in MetaRecords : ValidMeta(m, clock)}
  /\ store \in [QIds -> Texts]
  /\ Mounted

\* the readings Date.now() can return when the wall clock never goes back
LaterTimes == {t \in Times : t >= clock}

\* the same handlers under a wall clock that never goes back
NextMono ==
  \/ Initialize
  \/ \E t \in LaterTimes : startNew(t)
  \/ \E t \in LaterTimes : continueQuiz(t)
  \/ \E t \in LaterTimes : goResult(t)
  \/ \E id \in QIds, v \in Texts : updateAnswer(id, v)
  \/ \E id \in QIds : jumpTo(id)
  \/ \E id \in QIds : jumpReview(id)
  \/ \E ok \in BOOLEAN, t \in LaterTimes : submit(ok, t)
  \/ \E ok \in BOOLEAN : clearAnswers(ok)
  \/ \E t \in LaterTimes : tick(t)
  \/ \E t \in LaterTimes : reload(t)

SpecMono == InitValid /\ [][NextMono]_vars

\* a first run: nothing was ever saved
InitFirstRun ==
  /\ clock \in Times
  /\ meta = EmptyMeta
  /\ store = EmptyAnswers
  /\ Mounted

\* the handlers a first run can reach: the start page never offers goResult,
\* because no handler leaves a stored submission behind view = start
NextFirstRun ==
  \/ Initialize
  \/ \E t \in Times : startNew(t)
  \/ \E t \in Times : continueQuiz(t)
  \/ \E id \in QIds, v \in Texts : updateAnswer(id, v)
  \/ \E id \in QIds : jumpTo(id)
  \/ \E id \in QIds : jumpReview(id)
  \/ \E ok \in BOOLEAN, t \in Times : submit(ok, t)
  \/ \E ok \in BOOLEAN : clearAnswers(ok)
  \/ \E t \in Times : tick(t)
  \/ \E t \in Times : reload(t)

SpecFirstRun == InitFirstRun /\ [][NextFirstRun]_vars

(* ---------------------------- scoring ---------------------------------- *)
\* the user texts isCorrect is applied to
ProbeTexts == TextsUpTo(MaxLen)
\* the canonical answers of a dataset: loadDataset stores them trimmed
ProbeAnswers == {s \in ProbeTexts : Trim(s) = s}
ProbeQuestions == [id : {FirstId}, questionType : QuestionTypes, answer : ProbeAnswers]
\* the answer texts the score is computed over
ScoreTexts == {Empty, Blank, <<"a">>, <<"A">>, <<"A", " ">>, <<"b">>}

\* a first run, before the dataset has loaded
InitScore ==
  /\ clock = 1
  /\ meta = EmptyMeta
  /\ store = EmptyAnswers
  /\ Mounted

\* each scoring function is evaluated once, on arguments drawn from the sets above
callIsCorrect(q, user) ==
  /\ probe = NoProbe
  /\ probe' = [fn |-> "isCorrect", q |-> q, user |-> user, result |-> isCorrect(q, user)]
  /\ UNCHANGED <<phase, view, currentId, reviewId, answers, now, metaMemo, meta, store,
                 clock, act>>

callScore(a) ==
  /\ probe = NoProbe
  /\ probe' = [fn |-> "score", answers |-> a, result |-> score(Questions, a)]
  /\ UNCHANGED <<phase, view, currentId, reviewId, answers, now, metaMemo, meta, store,
                 clock, act>>

callPercent(correct, total) ==
  /\ probe = NoProbe
  /\ probe' = [fn |-> "percent", correct |-> correct, total |-> total,
                result |-> percent(correct, total)]
  /\ UNCHANGED <<phase, view, currentId, reviewId, answers, now, metaMemo, meta, store,
                 clock, act>>

NextScore ==
  \/ \E q \in ProbeQuestions, user \in ProbeTexts : callIsCorrect(q, user)
  \/ \E a \in [QIds -> ScoreTexts] : callScore(a)
  \/ \E total \in 0..MaxTotal : \E correct \in 0..total : callPercent(correct, total)

SpecScore == InitScore /\ [][NextScore]_vars

(* ======================================================================= *)
(* The claims                                                              *)
(* ======================================================================= *)
Loaded(id) == id \in QIds
AllBlank(a) == \A q \in QIds : a[q] = Empty

\* C1: once Initialize has run, view = result implies that the persisted
\* metadata has submittedAt set, and view = quiz implies that it has startedAt set.
C1_ViewImpliesTimestamp ==
  phase = "ready" =>
    /\ (view = "result" => meta.submittedAt # NoTime)
    /\ (view = "quiz" => meta.startedAt # NoTime)

\* Initialize has restored the result view from a stored record
C1_Witness ==
  /\ act.op = "initialize"
  /\ view = "result"
  /\ meta.submittedAt # NoTime
  /\ meta.startedAt = NoTime

\* C2: Initialize resolves currentId to the stored currentId when that names a
\* loaded question and to the first question's id otherwise, and reviewId to the
\* stored reviewId when that names a loaded question and to the resolved currentId
\* otherwise; after Initialize and after every later action the in-memory
\* currentId and reviewId name loaded questions.
C2_PointersResolved ==
  phase = "ready" =>
    /\ Loaded(currentId)
    /\ Loaded(reviewId)
    /\ act.op = "initialize" =>
         /\ currentId = (IF Loaded(meta.currentId) THEN meta.currentId ELSE FirstId)
         /\ reviewId = (IF Loaded(meta.reviewId) THEN meta.reviewId ELSE currentId)

\* Initialize has run over a record whose two pointers are stale
C2_Witness ==
  /\ act.op = "initialize"
  /\ meta.currentId = StaleId
  /\ meta.reviewId = StaleId
  /\ currentId = FirstId
  /\ reviewId = FirstId

\* C3 as stated: after Initialize the currentId and reviewId of the persisted
\* record, if set, name loaded questions.
C3_PersistedPointersLoaded ==
  phase = "ready" =>
    /\ (meta.currentId # NoId => Loaded(meta.currentId))
    /\ (meta.reviewId # NoId => Loaded(meta.reviewId))

\* the handlers that write currentId, and those that write reviewId, to the record
CurrentWriters == {"startNew", "continueQuiz", "jumpTo", "submit"}
ReviewWriters == {"startNew", "goResult", "jumpReview", "submit"}

\* C3 amended: Initialize leaves the persisted record as it is (a stale id is
\* replaced in memory only); every handler that writes currentId or reviewId to
\* the record writes the id of a loaded question, and a persisted pointer never
\* changes to anything else.
C3_WrittenPointersLoaded ==
  [][ /\ (act'.op = "initialize" => meta' = meta)
      /\ (act'.op \in CurrentWriters /\ act'.ok => Loaded(meta'.currentId))
      /\ (act'.op \in ReviewWriters /\ act'.ok => Loaded(meta'.reviewId))
      /\ (meta'.currentId # meta.currentId => Loaded(meta'.currentId))
      /\ (meta'.reviewId # meta.reviewId => Loaded(meta'.reviewId)) ]_vars

\* Continue has replaced a stale stored currentId while the stale reviewId stays
C3_Witness ==
  /\ act.op = "continueQuiz"
  /\ meta.currentId = FirstId
  /\ meta.reviewId = StaleId
  /\ Loaded(reviewId)

\* C4: after StartNew every answer is empty in memory and in the answer store,
\* view is quiz, currentId and reviewId are the first question's id, the persisted
\* startedAt is the time of the action and submittedAt is absent, so the elapsed
\* time measured at that instant is 0.
C4_StartNewResets ==
  act.op = "startNew" =>
    /\ AllBlank(answers)
    /\ AllBlank(store)
    /\ view = "quiz"
    /\ currentId = FirstId
    /\ reviewId = FirstId
    /\ meta.startedAt = clock
    /\ meta.submittedAt = NoTime
    /\ elapsedOf(meta, view, clock) = 0
    /\ elapsedOf(metaMemo, view, clock) = 0

\* StartNew has run at an instant later than the last timer tick
C4_Witness ==
  /\ act.op = "startNew"
  /\ view = "quiz"
  /\ now < clock

AllAnswered(a) == \A q \in QIds : Trim(a[q]) # <<>>
EmptyCount(a) == Cardinality({q \in QIds : Trim(a[q]) = <<>>})

\* C5: Submit in view quiz with every answer non-empty after trimming asks for
\* no confirmation and ends with view result, reviewId equal to the currentId
\* held at submission, persisted submittedAt equal to the time of the action,
\* and startedAt and all answers unchanged.
C5_SubmitAllAnswered ==
  [][ (act'.op = "submit" /\ AllAnswered(answers)) =>
        /\ ~act'.asked
        /\ view' = "result"
        /\ reviewId' = currentId
        /\ currentId' = currentId
        /\ meta'.reviewId = currentId
        /\ meta'.view = "result"
        /\ meta'.submittedAt = clock'
        /\ meta'.startedAt = meta.startedAt
        /\ answers' = answers
        /\ store' = store ]_vars

\* a second submission, later than the first, went through without a prompt
C5_Witness ==
  /\ act.op = "submit"
  /\ ~act.asked
  /\ AllAnswered(answers)
  /\ view = "result"
  /\ reviewId = currentId
  /\ currentId # FirstId
  /\ meta.submittedAt > meta.startedAt

\* C6: Submit in view quiz with N > 0 answers empty after trimming asks for a
\* confirmation reporting exactly N; declined, it changes neither view, the
\* persisted record, the pointers nor the answers; accepted, view becomes result.
C6_SubmitUnanswered ==
  [][ (act'.op = "submit" /\ EmptyCount(answers) > 0) =>
        /\ act'.asked
        /\ act'.n = EmptyCount(answers)
        /\ ~act'.ok => UNCHANGED <<view, meta, currentId, reviewId, answers, store>>
        /\ act'.ok => view' = "result" ]_vars

\* a submission with one whitespace-only answer among answered ones was declined
C6_Witness ==
  /\ act.op = "submit"
  /\ act.asked
  /\ ~act.ok
  /\ act.n = 1
  /\ \E q \in QIds : answers[q] = Blank
  /\ view = "quiz"

\* C7: ClearAnswers in view quiz, confirmed, empties every answer in memory and
\* in the answer store and leaves view, currentId, reviewId and the persisted
\* startedAt and submittedAt unchanged; declined, it changes nothing.
C7_ClearAnswersFrame ==
  [][ act'.op = "clearAnswers" =>
        /\ view = "quiz"
        /\ act'.asked
        /\ IF act'.ok
             THEN /\ AllBlank(answers')
                  /\ AllBlank(store')
                  /\ UNCHANGED <<view, currentId, reviewId>>
                  /\ meta'.startedAt = meta.startedAt
                  /\ meta'.submittedAt = meta.submittedAt
             ELSE UNCHANGED <<phase, view, currentId, reviewId, answers, now,
                               metaMemo, meta, store, clock>> ]_vars

\* answers were cleared in a quiz resumed after a submission
C7_Witness ==
  /\ act.op = "clearAnswers"
  /\ act.ok
  /\ AllBlank(answers)
  /\ AllBlank(store)
  /\ view = "quiz"
  /\ meta.submittedAt # NoTime
  /\ currentId # FirstId

\* C8 as stated: in a state whose persisted metadata has submittedAt set, a
\* timer tick leaves the displayed elapsed time unchanged (the quiz and result
\* pages display it).
C8_FrozenOnceSubmitted ==
  [][ (phase = "ready" /\ view # "start" /\ meta.submittedAt # NoTime
         /\ act'.op = "tick") =>
        elapsedMs' = elapsedMs ]_vars

\* C8 amended: while the view is result (where submittedAt is set) a timer tick
\* leaves the displayed elapsed time unchanged.
C8_FrozenInResult ==
  [][ (phase = "ready" /\ view = "result" /\ act'.op = "tick") =>
        /\ meta.submittedAt # NoTime
        /\ elapsedMs' = elapsedMs ]_vars

\* the timer has ticked in the result view, past the time of submission
C8_Witness ==
  /\ act.op = "tick"
  /\ view = "result"
  /\ meta.startedAt # NoTime
  /\ now > meta.submittedAt
  /\ elapsedMs = meta.submittedAt - meta.startedAt

\* C9: the displayed elapsed time is max(0, now - startedAt) while view is not
\* result and max(0, submittedAt - startedAt) while view is result, over the
\* startedAt and submittedAt of the persisted record; it is never negative.
C9_ElapsedFormula ==
  /\ elapsedMs >= 0
  /\ meta.startedAt # NoTime =>
       /\ view # "result" =>
            elapsedMs = (IF now > meta.startedAt THEN now - meta.startedAt ELSE 0)
       /\ view = "result" =>
            elapsedMs = (IF meta.submittedAt > meta.startedAt
                         THEN meta.submittedAt - meta.startedAt ELSE 0)

\* the clock was set back: the quiz started after the last tick's reading
C9_Witness ==
  /\ phase = "ready"
  /\ view = "quiz"
  /\ meta.startedAt # NoTime
  /\ now < meta.startedAt
  /\ elapsedMs = 0

\* C10 as stated: under a non-decreasing clock, from a first run or any valid
\* stored record, a persisted record with startedAt and submittedAt both set
\* has submittedAt >= startedAt.
C10_SubmittedNotBeforeStarted ==
  (meta.startedAt # NoTime /\ meta.submittedAt # NoTime) =>
    meta.submittedAt >= meta.startedAt

\* submittedAt is set only together with a startedAt that is not later
SubmittedAfterStarted(m) ==
  m.submittedAt # NoTime => (m.startedAt # NoTime /\ m.submittedAt >= m.startedAt)

\* C10 amended: under a non-decreasing clock no action breaks "submittedAt is set
\* only together with a startedAt <= submittedAt"; from a first run, or from a
\* stored record of which this holds, every reachable record satisfies it.
C10_OrderPreserved ==
  [][ SubmittedAfterStarted(meta) => SubmittedAfterStarted(meta') ]_vars

\* the quiz was resumed after a submission later than its start
C10_Witness ==
  /\ act.op = "continueQuiz"
  /\ view = "quiz"
  /\ meta.startedAt # NoTime
  /\ meta.submittedAt > meta.startedAt
  /\ now >= meta.submittedAt

\* C11: Continue sets view to quiz, keeps the persisted startedAt when it is set
\* and uses the current time only when it is absent, resolves currentId to the
\* stored currentId if that names a loaded question and to the first question's
\* id otherwise, and leaves all answers and the persisted submittedAt and
\* reviewId unchanged.
C11_ContinueFrame ==
  [][ act'.op = "continueQuiz" =>
        /\ view' = "quiz"
        /\ meta'.view = "quiz"
        /\ meta'.startedAt = (IF meta.startedAt # NoTime THEN meta.startedAt ELSE clock')
        /\ currentId' = (IF Loaded(meta.currentId) THEN meta.currentId ELSE FirstId)
        /\ meta'.currentId = currentId'
        /\ meta'.submittedAt = meta.submittedAt
        /\ meta'.reviewId = meta.reviewId
        /\ reviewId' = reviewId
        /\ answers' = answers
        /\ store' = store ]_vars

\* Continue has resumed a submitted quiz later than its start, keeping startedAt
C11_Witness ==
  /\ act.op = "continueQuiz"
  /\ view = "quiz"
  /\ meta.startedAt # NoTime
  /\ now > meta.startedAt
  /\ meta.submittedAt # NoTime
  /\ \E q \in QIds : Answered(answers[q])

\* C12: GoResult fires only in a state whose persisted metadata has submittedAt
\* set; it sets view to result, leaves an already-set startedAt, submittedAt,
\* all answers and currentId unchanged, and leaves reviewId naming a loaded
\* question, the stored reviewId when that is valid.
C12_GoResultFrame ==
  [][ act'.op = "goResult" =>
        /\ meta.submittedAt # NoTime
        /\ view' = "result"
        /\ meta'.view = "result"
        /\ meta'.submittedAt = meta.submittedAt
        /\ (meta.startedAt # NoTime => meta'.startedAt = meta.startedAt)
        /\ answers' = answers
        /\ store' = store
        /\ currentId' = currentId
        /\ meta'.currentId = meta.currentId
        /\ Loaded(reviewId')
        /\ meta'.reviewId = reviewId'
        /\ (Loaded(meta.reviewId) => reviewId' = meta.reviewId) ]_vars

\* GoResult has shown the result of a stored submission, at its stored reviewId
C12_Witness ==
  /\ act.op = "goResult"
  /\ view = "result"
  /\ meta.startedAt # NoTime
  /\ meta.submittedAt # NoTime
  /\ reviewId # FirstId
  /\ meta.reviewId = reviewId

\* C13: jumpTo(id) changes only currentId and jumpReview(id) only reviewId, in
\* memory and in the persisted record; view, the other pointer, startedAt,
\* submittedAt and every answer stay as they are.
C13_NavigateFrame ==
  [][ /\ act'.op = "jumpTo" =>
           /\ Loaded(currentId')
           /\ meta' = [meta EXCEPT !.currentId = currentId']
           /\ UNCHANGED <<view, reviewId, answers, store>>
      /\ act'.op = "jumpReview" =>
           /\ view = "result"
           /\ Loaded(reviewId')
           /\ meta' = [meta EXCEPT !.reviewId = reviewId']
           /\ UNCHANGED <<view, currentId, answers, store>> ]_vars

\* review navigation has moved reviewId away from the quiz pointer
C13_Witness ==
  /\ act.op = "jumpReview"
  /\ view = "result"
  /\ reviewId # currentId
  /\ meta.reviewId = reviewId
  /\ meta.currentId = currentId
  /\ meta.startedAt # NoTime
  /\ \E q \in QIds : Answered(answers[q])

\* C14: a timer tick changes only the in-memory now: the persisted record, the
\* answer store, view, currentId, reviewId and the in-memory answers stay as
\* they are, and so do the conditions under which the user actions are offered.
C14_TickFrame ==
  [][ act'.op = "tick" =>
        /\ UNCHANGED <<phase, view, currentId, reviewId, answers, meta, store, metaMemo>>
        /\ hasProgress' = hasProgress
        /\ hasSubmitted' = hasSubmitted ]_vars

\* the timer has ticked during a quiz with an answer given
C14_Witness ==
  /\ act.op = "tick"
  /\ view = "quiz"
  /\ now > meta.startedAt
  /\ meta.startedAt # NoTime
  /\ elapsedMs > 0
  /\ \E q \in QIds : Answered(answers[q])

\* the text between the first and the last character that is not a space
Stripped(s) ==
  LET Inked == {i \in 1..Len(s) : s[i] # " "}
  IN IF Inked = {} THEN <<>>
     ELSE SubSeq(s, CHOOSE i \in Inked : \A j \in Inked : i <= j,
                    CHOOSE i \in Inked : \A j \in Inked : i >= j)

LowerChar(c) == IF c = "A" THEN "a" ELSE IF c = "B" THEN "b" ELSE c
SameIgnoringCase(s, t) ==
  Len(s) = Len(t) /\ \A i \in 1..Len(s) : LowerChar(s[i]) = LowerChar(t[i])

\* the correctness rule as the specification words it
ReferenceCorrect(q, user) ==
  /\ \E i \in 1..Len(user) : user[i] # " "
  /\ IF q.questionType = "Multiple Choice"
     THEN SameIgnoringCase(Stripped(user), Stripped(q.answer))
     ELSE Stripped(user) = Stripped(q.answer)

\* C15: isCorrect agrees with the reference on every question type, canonical
\* answer and user text of the bounded set: false when the user text is empty
\* or only spaces; for Multiple Choice true exactly when the two are equal
\* after trimming and upper-casing both; for Fill-in-the-blank true exactly
\* when they are equal after trimming only, case kept.
C15_IsCorrectAgrees ==
  probe.fn = "isCorrect" =>
    /\ probe.result = ReferenceCorrect(probe.q, probe.user)
    /\ (Trim(probe.user) = <<>> => probe.result = FALSE)

\* a fill-in answer that differs from the canonical one only in case and
\* padding has been judged wrong
C15_Witness ==
  /\ probe.fn = "isCorrect"
  /\ probe.q.questionType = "Fill-in-the-blank"
  /\ probe.q.answer = <<"A">>
  /\ probe.user = <<"a", " ">>
  /\ probe.result = FALSE

\* the tenths of a percent nearest to correct / total, the upper one at a tie
NearestTenth(correct, total) ==
  CHOOSE k \in 0..1000 :
    /\ 2 * k * total <= 2000 * correct + total
    /\ 2000 * correct + total < 2 * (k + 1) * total

\* C16: 0 <= correct <= total, total is the number of loaded questions, correct
\* is the number of questions whose answer isCorrect and never exceeds the
\* number of answered questions, and the percentage is
\* round(correct / total * 1000) / 10 for every pair, 7/10 giving 70.0 and
\* 1/3 giving 33.3.
C16_ScoreAndPercent ==
  /\ probe.fn = "score" =>
       /\ probe.result.total = NQ
       /\ 0 <= probe.result.correct
       /\ probe.result.correct <= probe.result.total
       /\ probe.result.correct =
            Cardinality({q \in QIds : ReferenceCorrect(Questions[q], probe.answers[q])})
       /\ probe.result.correct <= Cardinality({q \in QIds : Answered(probe.answers[q])})
  /\ probe.fn = "percent" /\ probe.total > 0 =>
       /\ probe.result = NearestTenth(probe.correct, probe.total)
       /\ (probe.correct = 7 /\ probe.total = 10 => probe.result = 700)
       /\ (probe.correct = 1 /\ probe.total = 3 => probe.result = 333)
       /\ (probe.correct = 2 /\ probe.total = 3 => probe.result = 667)

\* the percentage of 7 correct out of 10 has been computed as 70.0
C16_Witness ==
  /\ probe.fn = "percent"
  /\ probe.correct = 7
  /\ probe.total = 10
  /\ probe.result = 700

\* C17: Continue can fire only from view start or view result, and only in a
\* state with prior progress: the persisted metadata has startedAt set and at
\* least one loaded question has a non-empty answer.
C17_ContinueNeedsProgress ==
  [][ act'.op = "continueQuiz" =>
        /\ view \in {"start", "result"}
        /\ meta.startedAt # NoTime
        /\ \E q \in QIds : Answered(answers[q]) ]_vars

\* C17 as the code has it: Continue fires only from view start or view result;
\* from start only with startedAt persisted and at least one non-empty answer,
\* from result whenever the result is shown, where submittedAt is persisted
\* but every answer may be empty.
C17_ContinueGuards ==
  [][ act'.op = "continueQuiz" =>
        /\ phase = "ready"
        /\ view \in {"start", "result"}
        /\ view = "start" =>
             meta.startedAt # NoTime /\ \E q \in QIds : Answered(answers[q])
        /\ view = "result" => meta.submittedAt # NoTime ]_vars

\* Continue has gone back to the quiz of a submission without any answer
C17_Witness ==
  /\ act.op = "continueQuiz"
  /\ view = "quiz"
  /\ AllBlank(answers)
  /\ meta.startedAt # NoTime
  /\ meta.submittedAt # NoTime

\* C18: under a non-decreasing clock the displayed elapsed time never decreases
\* from one state to the next across Submit, Continue, GoResult, Navigate,
\* ClearAnswers, answer edits and timer ticks; in particular it does not drop
\* when Continue is taken right after Submit, before the next tick refreshes
\* the in-memory now.
C18_ElapsedNeverDecreases ==
  [][ /\ phase = "ready"
      /\ view # "start"
      /\ act'.op \in {"submit", "continueQuiz", "goResult", "jumpTo", "jumpReview",
                      "clearAnswers", "updateAnswer", "tick"}
      => elapsedMs' >= elapsedMs ]_vars

\* what the dataset-load effect would restore from the stores as they are now
Restored ==
  [view |-> desiredView(meta),
   currentId |-> resolveId(meta.currentId, FirstId),
   reviewId |-> resolveId(meta.reviewId, resolveId(meta.currentId, FirstId)),
   answers |-> [q \in QIds |-> getAnswer(store, q)]]

\* C19: starting from a first-run store, after any sequence of StartNew,
\* Continue, GoResult, Submit, Navigate, ClearAnswers and answer edits, running
\* Initialize again on the same dataset yields the same view, currentId,
\* reviewId and answers as the in-memory state held just before the reload.
C19_ReloadRoundTrip ==
  phase = "ready" =>
    /\ Restored.view = view
    /\ Restored.currentId = currentId
    /\ Restored.reviewId = reviewId
    /\ Restored.answers = answers
    /\ (view = "start" => ~hasSubmitted)

\* the session has been reloaded after a submission was reviewed, and
\* Initialize has restored the result view, both pointers and the answers
C19_Witness ==
  /\ act.op = "initialize"
  /\ view = "result"
  /\ reviewId # FirstId
  /\ currentId # reviewId
  /\ \E q \in QIds : Answered(answers[q])
  /\ Restored.reviewId = reviewId

\* the edges of the view, each with the handler that takes it
ViewEdges ==
  {<<"start", "quiz", "startNew">>, <<"start", "quiz", "continueQuiz">>,
   <<"start", "result", "goResult">>, <<"quiz", "result", "submit">>,
   <<"result", "quiz", "continueQuiz">>, <<"result", "quiz", "startNew">>}

\* C20: within a session, from the view Initialize restored, the view changes
\* only along start to quiz (StartNew, Continue), start to result (GoResult),
\* quiz to result (Submit) and result to quiz (Continue, StartNew); no handler
\* sets the view to start; Submit, ClearAnswers, answer edits and jumpTo fire
\* only in view quiz, and jumpReview only in view result.
C20_ViewEdges ==
  [][ phase = "ready" /\ phase' = "ready" =>
        /\ view' # view => <<view, view', act'.op>> \in ViewEdges
        /\ view' = "start" => view = "start"
        /\ act'.op \in {"submit", "clearAnswers", "updateAnswer", "jumpTo"} => view = "quiz"
        /\ act'.op = "jumpReview" => view = "result" ]_vars

\* Continue has taken the edge from result back to quiz
C20_Witness ==
  /\ act.op = "continueQuiz"
  /\ view = "quiz"
  /\ meta.view = "quiz"
  /\ meta.submittedAt # NoTime
  /\ meta.startedAt # NoTime
  /\ AllAnswered(answers)

====
